---- MODULE Spec2Model ----
(***************************************************************************)
(* AerospikeSaver (langgraph/checkpoint/aerospike/saver.py): a checkpoint  *)
(* store over a key-value backend that offers only point get/put by key.   *)
(* The backend is one function from keys (namespace, set, primary key) to  *)
(* bins; every operation of the saver is a sequence of single-key backend  *)
(* calls, and callers may interleave between any two of them.              *)
(***************************************************************************)
EXTENDS Integers, Sequences, FiniteSets, TLC

\* ------------------------------------------------------------- bounds
MaxOps == 3          \* calls that write, and events of the backend, in one behaviour
MaxTimelineCfg == 3  \* largest configured timeline_max

\* ------------------------------------------------- python-level values
None == "None"       \* Python's None in a string-valued slot
Truthy(x) == x # None /\ x # ""
Or(x, y) == IF Truthy(x) THEN x ELSE y

EmptyDict == <<>>
DictGet(d, k, default) == IF k \in DOMAIN d THEN d[k] ELSE default
DictUpdate(d, e) ==
  [k \in DOMAIN d \cup DOMAIN e |-> IF k \in DOMAIN e THEN e[k] ELSE d[k]]
DictSet(d, k, v) == [j \in DOMAIN d \cup {k} |-> IF j = k THEN v ELSE d[j]]

Max(a, b) == IF a >= b THEN a ELSE b
Prefix(s, n) == [i \in 1..(IF Len(s) < n THEN Len(s) ELSE n) |-> s[i]]

\* ---------------------------------------------------------- constants
SEP == "|"
namespace == "test"
set_cp == "lg_cp"
set_writes == "lg_cp_w"
set_meta == "lg_cp_meta"

\* -------------------------------------------------------------- inputs
Procs == {"p1", "p2"}
Threads == {"t1", "t2"}
CheckpointIds == {"c1", "c2", "c3"}
Timestamps == {1, 2}

\* A caller's config: {"configurable": {...}, "metadata": {...}}.
Config(thread, ns, cid) ==
  [configurable |->
     IF cid = None THEN [thread_id |-> thread, checkpoint_ns |-> ns]
     ELSE [thread_id |-> thread, checkpoint_ns |-> ns, checkpoint_id |-> cid],
   metadata |-> EmptyDict]

NoConfig == [none |-> TRUE]   \* Python's None where a config goes
NoValue == [none |-> TRUE]    \* Python's None where a call's value goes

\* The (payload, metadata, parent) a put is called with.
PutVariants ==
  { [x |-> "x1", metadata |-> [source |-> "input"], parent |-> None],
    [x |-> "x2", metadata |-> [source |-> "loop"], parent |-> "c1"] }

\* The checkpoint dict of a put: 'id', the payload 'x' and, when the caller
\* stamps it, 'ts'.
Checkpoint(cid, x, ts) ==
  IF ts = 0 THEN [id |-> cid, x |-> x] ELSE [id |-> cid, x |-> x, ts |-> ts]

VARIABLES
  store,         \* the backend: key -> bins, for the records that exist
  timeline_max,  \* self.timeline_max
  pc,            \* per caller: where its call stands
  frame,         \* per caller: the local variables of its call
  ret,           \* per caller: what its last call returned or raised
  ops,           \* calls started so far
  lastPut,       \* per thread: the local variables of the put that returned last
  recency        \* per thread: the ids of the puts that returned, last first, each once

vars == <<store, timeline_max, pc, frame, ret, ops, lastPut, recency>>

\* ---------------------------------------------------------------- keys
\* key_cp without the checkpoint id: one record per scope.
key_cp_per_scope(thread_id, checkpoint_ns, checkpoint_id) ==
  <<namespace, set_cp, thread_id \o SEP \o checkpoint_ns \o SEP>>

key_cp(thread_id, checkpoint_ns, checkpoint_id) ==
  <<namespace, set_cp, thread_id \o SEP \o checkpoint_ns \o SEP \o checkpoint_id>>

key_writes(thread_id, checkpoint_ns, checkpoint_id) ==
  <<namespace, set_writes, thread_id \o SEP \o checkpoint_ns \o SEP \o checkpoint_id>>

key_latest(thread_id, checkpoint_ns) ==
  <<namespace, set_meta, thread_id \o SEP \o checkpoint_ns \o SEP \o "__latest__">>

key_timeline(thread_id, checkpoint_ns) ==
  <<namespace, set_meta, thread_id \o SEP \o checkpoint_ns \o SEP \o "__timeline__">>

\* ------------------------------------------------------ config parsing
\* ids_from_config that takes whatever thread id it finds.
ids_from_config_unchecked(config) ==
  LET c == DictGet(config, "configurable", EmptyDict)
      md == DictGet(config, "metadata", EmptyDict)
  IN [raised |-> None,
      thread_id |-> Or(DictGet(c, "thread_id", None), DictGet(md, "thread_id", None)),
      checkpoint_ns |->
        Or(Or(DictGet(c, "checkpoint_ns", None), DictGet(md, "checkpoint_ns", None)), ""),
      checkpoint_id |-> DictGet(c, "checkpoint_id", None)]

\* (thread_id, checkpoint_ns, checkpoint_id), or the ValueError raised.
ids_from_config(config) ==
  LET c == DictGet(config, "configurable", EmptyDict)
      md == DictGet(config, "metadata", EmptyDict)
      thread_id == Or(DictGet(c, "thread_id", None), DictGet(md, "thread_id", None))
      checkpoint_ns ==
        Or(Or(DictGet(c, "checkpoint_ns", None), DictGet(md, "checkpoint_ns", None)), "")
  IN IF ~Truthy(thread_id)
     THEN [raised |-> "ValueError"]
     ELSE [raised |-> None,
           thread_id |-> thread_id,
           checkpoint_ns |-> checkpoint_ns,
           checkpoint_id |-> DictGet(c, "checkpoint_id", None)]

\* --------------------------------------------------------------- codec
\* self.serde: a value becomes a type tag and bytes that carry it; bytes
\* that do not carry a value under their tag fail to decode.
dumps_typed(value) == <<"msgpack", <<"packed", value>>>>

\* loads_typed that hands back whatever bytes it is given.
loads_typed_any_bytes(typed) == [raised |-> None, value |-> typed[2]]

loads_typed(typed) ==
  IF typed[1] = "msgpack" /\ Len(typed[2]) = 2 /\ typed[2][1] = "packed"
  THEN [raised |-> None, value |-> typed[2][2]]
  ELSE [raised |-> "Exception"]

\* json: a document is a tagged value (list, int, str); a text either
\* carries a document or does not parse.
JInt(n) == [ty |-> "int", v |-> n]
JStr(s) == [ty |-> "str", v |-> s]
JList(elems) == [ty |-> "list", v |-> elems]

json_dumps_items(items) ==
  [text |-> "json",
   doc |-> JList([i \in 1..Len(items) |-> JList(<<JInt(items[i][1]), JStr(items[i][2])>>)])]

json_loads(s) ==
  IF s.text = "json" THEN [raised |-> None, value |-> s.doc]
  ELSE [raised |-> "Exception"]

\* ------------------------------------------------------------ backend
Absent == [absent |-> TRUE]
client_get(st, key) == IF key \in DOMAIN st THEN st[key] ELSE Absent
client_put(st, key, bins) ==
  [k \in DOMAIN st \cup {key} |-> IF k = key THEN bins ELSE st[k]]

\* _read_timeline_items on the record the backend returned (rec is Absent
\* when there is none): the well-formed (ts, id) entries, in order.
RECURSIVE cleaned_items(_)
cleaned_items(elems) ==
  IF elems = <<>> THEN <<>>
  ELSE LET it == Head(elems)
           rest == cleaned_items(Tail(elems))
       IN IF it.ty = "list" /\ Len(it.v) = 2 /\ it.v[2].ty = "str"
          THEN <<(<<it.v[1].v, it.v[2].v>>)>> \o rest
          ELSE rest

\* read_timeline_items for which one bad entry spoils the whole timeline.
read_timeline_items_strict(rec) ==
  IF rec = Absent THEN <<>>
  ELSE LET loaded == json_loads(DictGet(rec, "items", json_dumps_items(<<>>)))
       IN IF loaded.raised # None THEN <<>>
          ELSE IF loaded.value.ty # "list" THEN <<>>
          ELSE IF Len(cleaned_items(loaded.value.v)) # Len(loaded.value.v) THEN <<>>
          ELSE cleaned_items(loaded.value.v)

read_timeline_items(rec) ==
  IF rec = Absent THEN <<>>
  ELSE LET loaded == json_loads(DictGet(rec, "items", json_dumps_items(<<>>)))
       IN IF loaded.raised # None THEN <<>>
          ELSE IF loaded.value.ty # "list" THEN <<>>
          ELSE cleaned_items(loaded.value.v)

\* ----------------------------------------------------------------- put
\* The checkpoint record of a put (saver.py, rec).
put_rec(thread_id, checkpoint_ns, checkpoint_id, p_checkpoint_id, checkpoint, metadata, ts) ==
  [thread_id |-> thread_id,
   checkpoint_ns |-> checkpoint_ns,
   checkpoint_id |-> checkpoint_id,
   p_checkpoint_id |-> p_checkpoint_id,
   cp_type |-> dumps_typed(checkpoint)[1],
   checkpoint |-> dumps_typed(checkpoint)[2],
   meta_type |-> dumps_typed(metadata)[1],
   metadata |-> dumps_typed(metadata)[2],
   ts |-> ts]

\* without_id that removes nothing.
keep_all(items, checkpoint_id) == items

RECURSIVE without_id(_, _)
without_id(items, checkpoint_id) ==
  IF items = <<>> THEN <<>>
  ELSE IF Head(items)[2] # checkpoint_id
       THEN <<Head(items)>> \o without_id(Tail(items), checkpoint_id)
       ELSE without_id(Tail(items), checkpoint_id)

\* new_timeline that truncates one entry late.
new_timeline_late_cut(items, ts, checkpoint_id, cap) ==
  LET inserted == <<(<<ts, checkpoint_id>>)>> \o without_id(items, checkpoint_id)
  IN IF Len(inserted) > cap + 1 THEN Prefix(inserted, cap) ELSE inserted

\* new_timeline that cuts at the head: the entries put least recently stay.
new_timeline_tail_kept(items, ts, checkpoint_id, cap) ==
  LET inserted == <<(<<ts, checkpoint_id>>)>> \o without_id(items, checkpoint_id)
  IN IF Len(inserted) > cap
     THEN SubSeq(inserted, Len(inserted) - cap + 1, Len(inserted))
     ELSE inserted

\* new_timeline that leaves the id's older entry in place.
new_timeline_stacked(items, ts, checkpoint_id, cap) ==
  LET inserted == <<(<<ts, checkpoint_id>>)>> \o items
  IN IF Len(inserted) > cap THEN Prefix(inserted, cap) ELSE inserted

\* The timeline a put writes back, from the items it read.
new_timeline(items, ts, checkpoint_id, cap) ==
  LET inserted == <<(<<ts, checkpoint_id>>)>> \o without_id(items, checkpoint_id)
  IN IF Len(inserted) > cap THEN Prefix(inserted, cap) ELSE inserted

\* put's first write issued on the latest pointer instead of the record.
put_checkpoint_pointer_first(st, f) ==
  client_put(st, key_latest(f.thread_id, f.checkpoint_ns),
             [checkpoint_id |-> f.checkpoint_id, ts |-> f.ts])

\* The three writes of a put whose local variables are f, each on the
\* backend as it stands when the write is issued.
put_checkpoint(st, f) ==
  client_put(st, key_cp(f.thread_id, f.checkpoint_ns, f.checkpoint_id),
             put_rec(f.thread_id, f.checkpoint_ns, f.checkpoint_id, f.parent,
                     f.checkpoint, f.metadata, f.ts))

\* put_latest with a pointer that never moves back in time.
put_latest_if_newer(st, f) ==
  LET key == key_latest(f.thread_id, f.checkpoint_ns)
      cur == client_get(st, key)
  IN IF cur # Absent /\ cur.ts > f.ts THEN st
     ELSE client_put(st, key, [checkpoint_id |-> f.checkpoint_id, ts |-> f.ts])

\* put_latest that leaves the timestamp out of the pointer.
put_latest_unstamped(st, f) ==
  client_put(st, key_latest(f.thread_id, f.checkpoint_ns),
             [checkpoint_id |-> f.checkpoint_id, ts |-> 0])

\* put_latest that writes nothing.
put_latest_skipped(st, f) == st

put_latest(st, f) ==
  client_put(st, key_latest(f.thread_id, f.checkpoint_ns),
             [checkpoint_id |-> f.checkpoint_id, ts |-> f.ts])

put_timeline(st, f, items, cap) ==
  client_put(st, key_timeline(f.thread_id, f.checkpoint_ns),
             [items |-> json_dumps_items(new_timeline(items, f.ts, f.checkpoint_id, cap))])

\* A put whose backend calls all succeed, with no other caller in between.
put_all(st, f, cap) ==
  LET st2 == put_latest(put_checkpoint(st, f), f)
      items == read_timeline_items(client_get(st2, key_timeline(f.thread_id, f.checkpoint_ns)))
  IN put_timeline(st2, f, items, cap)

new_config(config, thread_id, checkpoint_ns, checkpoint_id) ==
  DictSet(config, "configurable",
          DictUpdate(DictGet(config, "configurable", EmptyDict),
                     [thread_id |-> thread_id,
                      checkpoint_ns |-> checkpoint_ns,
                      checkpoint_id |-> checkpoint_id]))

\* What a caller holds of its last call: the exception raised (None when
\* the call returned), the value returned, the step it ended at and the
\* local variables it ended with.
Idle == [op |-> "none"]
Returned(op, value, f) ==
  [op |-> op, raised |-> None, value |-> value, at |-> "return", call |-> f]
Raised(op, exc, at, f) ==
  [op |-> op, raised |-> exc, value |-> NoValue, at |-> at, call |-> f]

\* A call ends: the caller is idle again and holds what the call gave.
Finish(p, result) ==
  /\ pc' = [pc EXCEPT ![p] = "idle"]
  /\ frame' = [frame EXCEPT ![p] = Idle]
  /\ ret' = [ret EXCEPT ![p] = result]

\* The local variables of put once its arguments are validated. `fresh` and
\* `same` only observe the backend at the call: no record of this id yet,
\* the record this put writes is the one stored. `retry` only observes the
\* caller: where its previous call ended if that was this same put, "none"
\* otherwise. `alone` only observes the other callers: whether none of them
\* has a put in progress on the scope when this put is called.
put_frame(st, config, ids, checkpoint, metadata, now) ==
  LET ts == IF "ts" \in DOMAIN checkpoint THEN checkpoint.ts ELSE now
      stamped == DictSet(checkpoint, "ts", ts)
      merged == DictUpdate(metadata, DictGet(config, "metadata", EmptyDict))
      key == key_cp(ids.thread_id, ids.checkpoint_ns, checkpoint.id)
  IN [op |-> "put", config |-> config,
      thread_id |-> ids.thread_id,
      checkpoint_ns |-> ids.checkpoint_ns,
      checkpoint_id |-> checkpoint.id,
      parent |-> ids.checkpoint_id,
      checkpoint |-> stamped, metadata |-> merged,
      ts |-> ts, items |-> <<>>,
      fresh |-> key \notin DOMAIN st,
      same |-> /\ key \in DOMAIN st
               /\ st[key] = put_rec(ids.thread_id, ids.checkpoint_ns, checkpoint.id,
                                    ids.checkpoint_id, stamped, merged, ts),
      retry |-> "none", alone |-> TRUE]

\* Two puts were called with the same scope, parent, payload and metadata.
same_call(f, g) ==
  /\ f.config = g.config
  /\ f.thread_id = g.thread_id
  /\ f.checkpoint_ns = g.checkpoint_ns
  /\ f.parent = g.parent
  /\ f.checkpoint = g.checkpoint
  /\ f.metadata = g.metadata

\* The frame of a put called by a caller whose previous call gave `last`.
put_again(f, last) ==
  IF last.op = "put" /\ last.call # Idle /\ same_call(f, last.call)
  THEN [f EXCEPT !.retry = last.at]
  ELSE f

\* The frame of a put called while the callers of `others` may be in a put
\* on its scope.
put_beside(f, others) ==
  [f EXCEPT !.alone =
     \A q \in others :
       ~(/\ pc[q] # "idle"
         /\ frame[q].op = "put"
         /\ frame[q].thread_id = f.thread_id
         /\ frame[q].checkpoint_ns = f.checkpoint_ns)]

\* put, up to and including its first backend call (the checkpoint record).
PutCall(p, config, checkpoint, metadata, now, ok) ==
  /\ pc[p] = "idle"
  /\ ops < MaxOps
  /\ ops' = ops + 1
  /\ UNCHANGED <<timeline_max, lastPut, recency>>
  /\ LET ids == ids_from_config(config)
     IN IF ids.raised # None
        THEN Finish(p, Raised("put", "ValueError", "ids_from_config", Idle))
             /\ UNCHANGED store
        ELSE IF ~Truthy(DictGet(checkpoint, "id", None))
        THEN Finish(p, Raised("put", "ValueError", "checkpoint_id", Idle))
             /\ UNCHANGED store
        ELSE
          LET f == put_beside(put_again(put_frame(store, config, ids, checkpoint, metadata,
                                                  now), ret[p]), Procs \ {p})
          IN IF ok
             THEN /\ store' = put_checkpoint(store, f)
                  /\ pc' = [pc EXCEPT ![p] = "put_latest"]
                  /\ frame' = [frame EXCEPT ![p] = f]
                  /\ ret' = [ret EXCEPT ![p] = Idle]
             ELSE Finish(p, Raised("put", "RuntimeError", "put_checkpoint", f))
                  /\ UNCHANGED store

\* PutLatest that goes on to the timeline when the pointer's write failed.
PutLatest_swallowing(p, ok) ==
  /\ pc[p] = "put_latest"
  /\ UNCHANGED <<timeline_max, ops, lastPut, recency, frame, ret>>
  /\ store' = IF ok THEN put_latest(store, frame[p]) ELSE store
  /\ pc' = [pc EXCEPT ![p] = "put_timeline_read"]

\* put's second backend call: the latest pointer.
PutLatest(p, ok) ==
  /\ pc[p] = "put_latest"
  /\ UNCHANGED <<timeline_max, ops, lastPut, recency>>
  /\ IF ok
     THEN /\ store' = put_latest(store, frame[p])
          /\ pc' = [pc EXCEPT ![p] = "put_timeline_read"]
          /\ UNCHANGED <<frame, ret>>
     ELSE Finish(p, Raised("put", "RuntimeError", pc[p], frame[p])) /\ UNCHANGED store

\* put's third backend call: the read of the timeline.
PutTimelineRead(p, ok) ==
  /\ pc[p] = "put_timeline_read"
  /\ UNCHANGED <<store, timeline_max, ops, lastPut, recency>>
  /\ LET f == frame[p]
         rec == client_get(store, key_timeline(f.thread_id, f.checkpoint_ns))
     IN IF ok
        THEN /\ frame' = [frame EXCEPT ![p].items = read_timeline_items(rec)]
             /\ pc' = [pc EXCEPT ![p] = "put_timeline_write"]
             /\ UNCHANGED ret
        ELSE Finish(p, Raised("put", "RuntimeError", pc[p], f))

\* PutTimelineWrite that reads the timeline again as it writes it.
PutTimelineWrite_atomic(p, ok) ==
  /\ pc[p] = "put_timeline_write"
  /\ UNCHANGED <<timeline_max, ops>>
  /\ LET f == frame[p]
         now == read_timeline_items(client_get(store, key_timeline(f.thread_id, f.checkpoint_ns)))
     IN IF ok
        THEN /\ store' = put_timeline(store, f, now, timeline_max)
             /\ Finish(p, Returned("put",
                  new_config(f.config, f.thread_id, f.checkpoint_ns, f.checkpoint_id), f))
             /\ lastPut' = [lastPut EXCEPT ![f.thread_id] = f]
             /\ recency' = [recency EXCEPT ![f.thread_id] =
                  <<f.checkpoint_id>> \o SelectSeq(@, LAMBDA c : c # f.checkpoint_id)]
        ELSE /\ Finish(p, Raised("put", "RuntimeError", pc[p], f))
             /\ UNCHANGED <<store, lastPut, recency>>

\* put's fourth backend call: the timeline written back; put returns.
PutTimelineWrite(p, ok) ==
  /\ pc[p] = "put_timeline_write"
  /\ UNCHANGED <<timeline_max, ops>>
  /\ LET f == frame[p]
     IN IF ok
        THEN /\ store' = put_timeline(store, f, f.items, timeline_max)
             /\ Finish(p, Returned("put",
                  new_config(f.config, f.thread_id, f.checkpoint_ns, f.checkpoint_id), f))
             /\ lastPut' = [lastPut EXCEPT ![f.thread_id] = f]
             /\ recency' = [recency EXCEPT ![f.thread_id] =
                  <<f.checkpoint_id>> \o SelectSeq(@, LAMBDA c : c # f.checkpoint_id)]
        ELSE /\ Finish(p, Raised("put", "RuntimeError", pc[p], f))
             /\ UNCHANGED <<store, lastPut, recency>>

\* ---------------------------------------------------------- put_writes
\* langgraph.checkpoint.base.WRITES_IDX_MAP: the channels with a fixed slot.
WRITES_IDX_MAP ==
  [__error__ |-> -1, __scheduled__ |-> -2, __interrupt__ |-> -3, __resume__ |-> -4]

\* replace_at that matches the slot whatever the task.
RECURSIVE replace_at_any_task(_, _, _, _)
replace_at_any_task(existing_items, task_id, idx_val, i) ==
  IF i > Len(existing_items) THEN 0
  ELSE IF "idx" \in DOMAIN existing_items[i] /\ existing_items[i].idx = idx_val
       THEN i
       ELSE replace_at_any_task(existing_items, task_id, idx_val, i + 1)

\* Position (from 1) of the first entry of a ledger with this task and slot;
\* 0 when there is none.
RECURSIVE replace_at(_, _, _, _)
replace_at(existing_items, task_id, idx_val, i) ==
  IF i > Len(existing_items) THEN 0
  ELSE IF /\ DictGet(existing_items[i], "task_id", None) = task_id
          /\ "idx" \in DOMAIN existing_items[i]
          /\ existing_items[i].idx = idx_val
       THEN i
       ELSE replace_at(existing_items, task_id, idx_val, i + 1)

\* The loop of put_writes over the writes left, idx being the position of
\* the first of them in the call.
RECURSIVE merge_writes(_, _, _, _, _, _)
merge_writes(existing_items, writes, idx, task_id, task_path, now_ts) ==
  IF writes = <<>> THEN existing_items
  ELSE
    LET channel == Head(writes)[1]
        value == Head(writes)[2]
        idx_val == DictGet(WRITES_IDX_MAP, channel, idx)
        new_item == [task_id |-> task_id, task_path |-> task_path,
                     channel |-> channel, idx |-> idx_val,
                     type |-> dumps_typed(value)[1], value |-> dumps_typed(value)[2],
                     ts |-> now_ts]
        at == replace_at(existing_items, task_id, idx_val, 1)
        merged == IF at # 0 THEN [existing_items EXCEPT ![at] = new_item]
                  ELSE Append(existing_items, new_item)
    IN merge_writes(merged, Tail(writes), idx + 1, task_id, task_path, now_ts)

\* put_writes, up to and including its first backend call (the ledger read).
PutWritesCall(p, config, writes, task_id, task_path, now_ts, ok) ==
  /\ pc[p] = "idle"
  /\ ops < MaxOps
  /\ ops' = ops + 1
  /\ UNCHANGED <<store, timeline_max, lastPut, recency>>
  /\ IF writes = <<>> THEN Finish(p, Returned("put_writes", NoValue, Idle))
     ELSE
       LET ids == ids_from_config(config)
       IN IF ids.raised # None
          THEN Finish(p, Raised("put_writes", "ValueError", "ids_from_config", Idle))
          ELSE IF ~Truthy(ids.checkpoint_id) THEN Finish(p, Returned("put_writes", NoValue, Idle))
          ELSE
            LET key == key_writes(ids.thread_id, ids.checkpoint_ns, ids.checkpoint_id)
                existing_rec == client_get(store, key)
            IN IF ~ok THEN Finish(p, Raised("put_writes", "RuntimeError", "get_writes", Idle))
               ELSE IF existing_rec # Absent /\ "writes" \notin DOMAIN existing_rec
               THEN Finish(p, Raised("put_writes", "TypeError", "enumerate", Idle))
               ELSE
                 /\ pc' = [pc EXCEPT ![p] = "put_writes_write"]
                 /\ frame' = [frame EXCEPT ![p] =
                      [op |-> "put_writes", key |-> key,
                       thread_id |-> ids.thread_id,
                       checkpoint_ns |-> ids.checkpoint_ns,
                       checkpoint_id |-> ids.checkpoint_id,
                       task_id |-> task_id, writes |-> writes,
                       existing_items |->
                         merge_writes(IF existing_rec = Absent THEN <<>>
                                      ELSE existing_rec.writes,
                                      writes, 0, task_id, task_path, now_ts)]]
                 /\ ret' = [ret EXCEPT ![p] = Idle]

\* PutWritesWrite that reads the ledger again as it writes it.
PutWritesWrite_atomic(p, ok) ==
  /\ pc[p] = "put_writes_write"
  /\ UNCHANGED <<timeline_max, ops, lastPut, recency>>
  /\ IF ok
     THEN LET now == client_get(store, frame[p].key)
          IN /\ store' = client_put(store, frame[p].key,
                  [writes |-> merge_writes(IF now = Absent THEN <<>> ELSE now.writes,
                                           frame[p].writes, 0, frame[p].task_id, "", 1)])
             /\ Finish(p, Returned("put_writes", NoValue, frame[p]))
     ELSE Finish(p, Raised("put_writes", "RuntimeError", pc[p], frame[p]))
          /\ UNCHANGED store

\* put_writes' second backend call: the whole ledger written back.
PutWritesWrite(p, ok) ==
  /\ pc[p] = "put_writes_write"
  /\ UNCHANGED <<timeline_max, ops, lastPut, recency>>
  /\ IF ok
     THEN /\ store' = client_put(store, frame[p].key,
                                 [writes |-> frame[p].existing_items])
          /\ Finish(p, Returned("put_writes", NoValue, frame[p]))
     ELSE Finish(p, Raised("put_writes", "RuntimeError", pc[p], frame[p]))
          /\ UNCHANGED store

\* ----------------------------------------------------------- get_tuple
\* What an operation gave: the exception it raised (None when it returned),
\* the value it returned, and the keys of the backend calls it issued.
Outcome(raised, value, calls) == [raised |-> raised, value |-> value, calls |-> calls]
NotFound == [found |-> FALSE]

\* The pending writes decoded from a ledger's entries, or the exception
\* that escapes the loop: a missing field (KeyError) skips the entry.
RECURSIVE pending_writes(_)
pending_writes(items) ==
  IF items = <<>> THEN [raised |-> None, value |-> <<>>]
  ELSE LET item == Head(items)
       IN IF ~({"channel", "type", "value"} \subseteq DOMAIN item)
          THEN pending_writes(Tail(items))
          ELSE LET loaded == loads_typed(<<item.type, item.value>>)
                   rest == pending_writes(Tail(items))
               IN IF loaded.raised # None THEN [raised |-> loaded.raised]
                  ELSE IF rest.raised # None THEN rest
                  ELSE [raised |-> None,
                        value |-> <<(<<DictGet(item, "task_id", ""), item.channel,
                                       loaded.value>>)>> \o rest.value]

\* get_tuple from the checkpoint record on, checkpoint_id being resolved;
\* calls are the backend calls issued before, failAt the ordinal of the
\* backend call of this operation that fails (0: none does).
get_resolved(st, thread_id, checkpoint_ns, checkpoint_id, calls, failAt) ==
  LET cpKey == key_cp(thread_id, checkpoint_ns, checkpoint_id)
      calls2 == Append(calls, cpKey)
      bins == client_get(st, cpKey)
  IN IF failAt = Len(calls2) THEN Outcome("RuntimeError", NotFound, calls2)
     ELSE IF bins = Absent THEN Outcome(None, NotFound, calls2)
     ELSE IF "cp_type" \notin DOMAIN bins \/ "checkpoint" \notin DOMAIN bins
     THEN Outcome(None, NotFound, calls2)
     ELSE IF loads_typed(<<bins.cp_type, bins.checkpoint>>).raised # None
     THEN Outcome(None, NotFound, calls2)
     ELSE IF "meta_type" \notin DOMAIN bins \/ "metadata" \notin DOMAIN bins
     THEN Outcome(None, NotFound, calls2)
     ELSE IF loads_typed(<<bins.meta_type, bins.metadata>>).raised # None
     THEN Outcome(None, NotFound, calls2)
     ELSE
       LET wKey == key_writes(thread_id, checkpoint_ns, checkpoint_id)
           calls3 == Append(calls2, wKey)
           wrec == client_get(st, wKey)
           pending == IF wrec = Absent \/ "writes" \notin DOMAIN wrec
                      THEN [raised |-> None, value |-> <<>>]
                      ELSE pending_writes(wrec.writes)
           parent == DictGet(bins, "p_checkpoint_id", None)
       IN IF failAt = Len(calls3) THEN Outcome("RuntimeError", NotFound, calls3)
          ELSE IF pending.raised # None THEN Outcome(pending.raised, NotFound, calls3)
          ELSE Outcome(None,
                 [found |-> TRUE,
                  config |-> Config(thread_id, checkpoint_ns, checkpoint_id),
                  checkpoint |-> loads_typed(<<bins.cp_type, bins.checkpoint>>).value,
                  metadata |-> loads_typed(<<bins.meta_type, bins.metadata>>).value,
                  parent_config |-> IF Truthy(parent)
                                    THEN Config(thread_id, checkpoint_ns, parent)
                                    ELSE [configurable |-> None],
                  pending_writes |-> pending.value],
                 calls3)

\* get_tuple that takes a failed lookup of the latest pointer for an absent
\* pointer.
get_tuple_absent_on_failure(st, config, failAt) ==
  LET ids == ids_from_config(config)
  IN IF ids.raised # None THEN Outcome(ids.raised, NotFound, <<>>)
     ELSE IF ids.checkpoint_id # None
     THEN get_resolved(st, ids.thread_id, ids.checkpoint_ns, ids.checkpoint_id, <<>>, failAt)
     ELSE LET latestKey == key_latest(ids.thread_id, ids.checkpoint_ns)
              latest == client_get(st, latestKey)
          IN IF failAt = 1 THEN Outcome(None, NotFound, <<latestKey>>)
             ELSE IF latest = Absent \/ "checkpoint_id" \notin DOMAIN latest
             THEN Outcome(None, NotFound, <<latestKey>>)
             ELSE get_resolved(st, ids.thread_id, ids.checkpoint_ns, latest.checkpoint_id,
                               <<latestKey>>, failAt)

get_tuple(st, config, failAt) ==
  LET ids == ids_from_config(config)
  IN IF ids.raised # None THEN Outcome(ids.raised, NotFound, <<>>)
     ELSE IF ids.checkpoint_id # None
     THEN get_resolved(st, ids.thread_id, ids.checkpoint_ns, ids.checkpoint_id, <<>>, failAt)
     ELSE LET latestKey == key_latest(ids.thread_id, ids.checkpoint_ns)
              latest == client_get(st, latestKey)
          IN IF failAt = 1 THEN Outcome("RuntimeError", NotFound, <<latestKey>>)
             ELSE IF latest = Absent \/ "checkpoint_id" \notin DOMAIN latest
             THEN Outcome(None, NotFound, <<latestKey>>)
             ELSE get_resolved(st, ids.thread_id, ids.checkpoint_ns, latest.checkpoint_id,
                               <<latestKey>>, failAt)

\* ---------------------------------------------------------------- list
NoLimit == -1

\* after_before that keeps the entry of before_id.
RECURSIVE from_before(_, _)
from_before(items, before_id) ==
  IF items = <<>> THEN <<>>
  ELSE IF Head(items)[2] = before_id THEN items
  ELSE from_before(Tail(items), before_id)

\* The entries strictly after the first one whose id is before_id.
RECURSIVE after_before(_, _)
after_before(items, before_id) ==
  IF items = <<>> THEN <<>>
  ELSE IF Head(items)[2] = before_id THEN Tail(items)
  ELSE after_before(Tail(items), before_id)

\* tpl.metadata.get(k) != v for no key of the filter: a key the metadata
\* lacks reads as None.
filter_ok(metadata, filter) ==
  \A k \in DOMAIN filter : DictGet(metadata, k, None) = filter[k]

\* The loop of list over the entries left, yielded being what it has
\* yielded so far.
RECURSIVE list_loop(_, _, _, _, _, _, _, _, _)
list_loop(st, thread_id, checkpoint_ns, items, filter, limit, yielded, calls, failAt) ==
  IF items = <<>> THEN Outcome(None, yielded, calls)
  ELSE IF limit # NoLimit /\ Len(yielded) >= limit THEN Outcome(None, yielded, calls)
  ELSE LET got == get_resolved(st, thread_id, checkpoint_ns, Head(items)[2], calls, failAt)
       IN IF got.raised # None THEN Outcome(got.raised, yielded, got.calls)
          ELSE IF ~got.value.found
          THEN list_loop(st, thread_id, checkpoint_ns, Tail(items), filter, limit,
                         yielded, got.calls, failAt)
          ELSE IF ~filter_ok(got.value.metadata, filter)
          THEN list_loop(st, thread_id, checkpoint_ns, Tail(items), filter, limit,
                         yielded, got.calls, failAt)
          ELSE list_loop(st, thread_id, checkpoint_ns, Tail(items), filter, limit,
                         Append(yielded, got.value), got.calls, failAt)

\* list, consumed to its end: what it yielded, and the exception that ended
\* it if one did. before is a config, or NoConfig (Python's None).
list(st, config, filter, before, limit, failAt) ==
  LET ids == ids_from_config(config)
  IN IF ids.raised # None THEN Outcome(ids.raised, <<>>, <<>>)
     ELSE
       LET tlKey == key_timeline(ids.thread_id, ids.checkpoint_ns)
           items == read_timeline_items(client_get(st, tlKey))
           bids == IF before = NoConfig THEN [raised |-> None, checkpoint_id |-> None]
                   ELSE ids_from_config(before)
       IN IF failAt = 1 THEN Outcome("RuntimeError", <<>>, <<tlKey>>)
          ELSE IF bids.raised # None THEN Outcome(bids.raised, <<>>, <<tlKey>>)
          ELSE list_loop(st, ids.thread_id, ids.checkpoint_ns,
                         IF Truthy(bids.checkpoint_id)
                         THEN after_before(items, bids.checkpoint_id) ELSE items,
                         filter, limit, <<>>, <<tlKey>>, failAt)

\* get_tuple as a call: its reads see one state of the backend.
Get(p, config, failAt) ==
  /\ pc[p] = "idle"
  /\ LET got == get_tuple(store, config, failAt)
     IN Finish(p, [op |-> "get", config |-> config, raised |-> got.raised,
                   value |-> got.value])
  /\ UNCHANGED <<store, timeline_max, ops, lastPut, recency>>

\* list as a call, consumed to its end: the ids it yielded, in order.
List(p, config, filter, before, limit, failAt) ==
  /\ pc[p] = "idle"
  /\ LET got == list(store, config, filter, before, limit, failAt)
     IN Finish(p, [op |-> "list", config |-> config, before |-> before, limit |-> limit,
                   filter |-> filter, raised |-> got.raised,
                   value |-> [i \in 1..Len(got.value) |->
                                got.value[i].config.configurable.checkpoint_id]])
  /\ UNCHANGED <<store, timeline_max, ops, lastPut, recency>>

\* ---------------------------------------------------- the backend's side
\* A record written with a ttl expires (self.ttl, passed with every put).
Expire(key) ==
  /\ key \in DOMAIN store
  /\ ops < MaxOps
  /\ ops' = ops + 1
  /\ store' = [k \in DOMAIN store \ {key} |-> store[k]]
  /\ UNCHANGED <<timeline_max, pc, frame, ret, lastPut, recency>>

Garbage == <<"\\xff">>
DropBin(bins, bin) == [b \in DOMAIN bins \ {bin} |-> bins[b]]

\* A record is damaged behind the saver's back, in one of the ways the read
\* path guards against: a bin is missing, or its bytes no longer decode.
Damage(key, bin, drop) ==
  /\ key \in DOMAIN store
  /\ bin \in DOMAIN store[key]
  /\ ops < MaxOps
  /\ ops' = ops + 1
  /\ \/ /\ drop
        /\ bin \in {"cp_type", "checkpoint", "meta_type", "metadata", "checkpoint_id"}
        /\ key[2] \in {set_cp, set_meta}
        /\ DOMAIN store[key] # {bin}
        /\ store' = [store EXCEPT ![key] = DropBin(@, bin)]
     \/ /\ ~drop
        /\ bin \in {"checkpoint", "metadata"}
        /\ key[2] = set_cp
        /\ store' = [store EXCEPT ![key] = [@ EXCEPT ![bin] = Garbage]]
  /\ UNCHANGED <<timeline_max, pc, frame, ret, lastPut, recency>>

\* The timeline record of a thread is malformed behind the saver's back: its
\* text no longer parses, parses to something that is no list, the record
\* has lost its items, or entries that are no (timestamp, id) pair stand
\* among its entries.
BadEntries ==
  <<JInt(7), JList(<<JInt(1), JInt(2)>>), JList(<<JInt(1), JStr("c9"), JStr("x")>>)>>
DamageTimeline(t, kind) ==
  LET key == key_timeline(t, "")
  IN /\ key \in DOMAIN store
     /\ ops < MaxOps
     /\ ops' = ops + 1
     /\ \/ /\ kind = "unparseable"
           /\ store' = [store EXCEPT ![key] = [items |-> [text |-> "[[1, "]]]
        \/ /\ kind = "no list"
           /\ store' = [store EXCEPT ![key] = [items |-> [text |-> "json", doc |-> JInt(7)]]]
        \/ /\ kind = "no items"
           /\ store' = [store EXCEPT ![key] = [ts |-> 1]]
        \/ /\ kind = "bad entries"
           /\ "items" \in DOMAIN store[key]
           /\ store[key].items.text = "json"
           /\ store[key].items.doc.ty = "list"
           /\ Len(store[key].items.doc.v) <= MaxTimelineCfg
           /\ store' = [store EXCEPT ![key] =
                [items |-> [text |-> "json",
                            doc |-> JList(<<BadEntries[1]>> \o store[key].items.doc.v
                                          \o Tail(BadEntries))]]]
     /\ UNCHANGED <<timeline_max, pc, frame, ret, lastPut, recency>>

\* The ledger record of a checkpoint is malformed behind the saver's back: it
\* is there without its writes bin.
DamageLedger(t, cid) ==
  LET key == key_writes(t, "", cid)
  IN /\ key \in DOMAIN store
     /\ "writes" \in DOMAIN store[key]
     /\ ops < MaxOps
     /\ ops' = ops + 1
     /\ store' = [store EXCEPT ![key] = [ts |-> 1]]
     /\ UNCHANGED <<timeline_max, pc, frame, ret, lastPut, recency>>

\* An entry of the ledger of a checkpoint is damaged behind the saver's
\* back: it loses a field get needs, or its bytes no longer decode.
DamageEntry(t, cid, i, field, drop) ==
  LET key == key_writes(t, "", cid)
  IN /\ key \in DOMAIN store
     /\ "writes" \in DOMAIN store[key]
     /\ i \in 1..Len(store[key].writes)
     /\ field \in DOMAIN store[key].writes[i]
     /\ ops < MaxOps
     /\ ops' = ops + 1
     /\ \/ /\ drop
           /\ field \in {"channel", "type", "value"}
           /\ store' = [store EXCEPT ![key].writes[i] = DropBin(@, field)]
        \/ /\ ~drop
           /\ field = "value"
           /\ store' = [store EXCEPT ![key].writes[i].value = Garbage]
     /\ UNCHANGED <<timeline_max, pc, frame, ret, lastPut, recency>>

\* The process of a caller dies between two backend calls of its call.
Crash(p) ==
  /\ pc[p] # "idle"
  /\ Finish(p, Raised(frame[p].op, "Crashed", pc[p], frame[p]))
  /\ UNCHANGED <<store, timeline_max, ops, lastPut, recency>>

Init ==
  /\ store = <<>>
  /\ timeline_max \in {Max(1, c) : c \in 0..MaxTimelineCfg}
  /\ pc = [p \in Procs |-> "idle"]
  /\ frame = [p \in Procs |-> Idle]
  /\ ret = [p \in Procs |-> Idle]
  /\ ops = 0
  /\ lastPut = [t \in Threads |-> Idle]
  /\ recency = [t \in Threads |-> <<>>]

\* The writes a put_writes is called with: (channel, value) pairs.
WriteLists ==
  { <<(<<"a", "v1">>)>>, <<(<<"a", "v2">>)>>,
    <<(<<"__error__", "v1">>)>>, <<(<<"__error__", "v2">>)>>,
    <<(<<"a", "v1">>), (<<"b", "v2">>)>>,
    <<(<<"a", "v2">>), (<<"__error__", "v1">>)>>,
    <<(<<"__error__", "v1">>), (<<"a", "v1">>)>>,
    <<(<<"__error__", "v1">>), (<<"__error__", "v2">>)>> }
TaskIds == {"k1", "k2"}

\* The puts of the specifications that vary something else.
ConcVariants == {v \in PutVariants : v.parent = None}

\* The steps of put by caller p on the (thread, checkpoint id) pairs of
\* `targets`, with backend calls that succeed (ok) or fail. The caller either
\* stamps the checkpoint with ts or leaves that to put, whose clock reads ts.
PutSteps(p, oks, targets, variants) ==
  \/ \E tc \in targets, v \in variants, ts \in Timestamps,
        stamped \in BOOLEAN, ok \in oks :
       PutCall(p, Config(tc[1], "", v.parent),
               Checkpoint(tc[2], v.x, IF stamped THEN ts ELSE 0), v.metadata, ts, ok)
  \/ \E ok \in oks : PutLatest(p, ok)
  \/ \E ok \in oks : PutTimelineRead(p, ok)
  \/ \E ok \in oks : PutTimelineWrite(p, ok)

\* The steps of put_writes by caller p on the ledgers of `threads` x `cids`.
WritesSteps(p, oks, threads, cids) ==
  \/ \E t \in threads, cid \in cids, w \in WriteLists, k \in TaskIds, ok \in oks :
       PutWritesCall(p, Config(t, "", cid), w, k, "", 1, ok)
  \/ \E ok \in oks : PutWritesWrite(p, ok)

\* One caller puts, every backend call succeeds.
SeqTargets == ({"t1"} \X CheckpointIds) \cup {<<"t2", "c1">>}
SeqNext == PutSteps("p1", {TRUE}, SeqTargets, PutVariants)
SeqSpec == Init /\ [][SeqNext]_vars

\* One caller appends writes, every backend call succeeds.
LedgerNext == WritesSteps("p1", {TRUE}, {"t1"}, {"c1"})
LedgerSpec == Init /\ [][LedgerNext]_vars

\* One caller puts; a backend call may fail, the caller may crash.
FailNext == PutSteps("p1", BOOLEAN, {"t1"} \X {"c1", "c2"}, PutVariants) \/ Crash("p1")
FailSpec == Init /\ [][FailNext]_vars

\* The reads of caller p on the scopes of `threads`: get with and without an
\* id, list with and without a before.
ReadSteps(p, threads, cids, filters, limits) ==
  \/ \E t \in threads, cid \in cids \cup {None} : Get(p, Config(t, "", cid), 0)
  \/ \E t \in threads, b \in cids \cup {None}, f \in filters, n \in limits :
       List(p, Config(t, "", None), f, IF b = None THEN NoConfig ELSE Config(t, "", b), n, 0)

\* One caller puts and reads, every backend call succeeds.
ReadNext ==
  \/ PutSteps("p1", {TRUE}, {"t1"} \X CheckpointIds, ConcVariants)
  \/ ReadSteps("p1", {"t1"}, CheckpointIds \cup {"c9"}, {EmptyDict}, {NoLimit})
ReadSpec == Init /\ [][ReadNext]_vars

\* One caller puts and gets while records expire and are damaged.
EnvNext ==
  \/ PutSteps("p1", {TRUE}, {"t1"} \X {"c1", "c2"}, ConcVariants)
  \/ \E t \in {"t1"}, cid \in {"c1", "c2", None} : Get("p1", Config(t, "", cid), 0)
  \/ \E key \in DOMAIN store : Expire(key)
  \/ \E key \in DOMAIN store : \E bin \in DOMAIN store[key], drop \in BOOLEAN :
       Damage(key, bin, drop)
EnvSpec == Init /\ [][EnvNext]_vars

\* One caller appends writes while the ledger record is malformed.
LedgerDamageNext ==
  \/ WritesSteps("p1", {TRUE}, {"t1"}, {"c1"})
  \/ DamageLedger("t1", "c1")
LedgerDamageSpec == Init /\ [][LedgerDamageNext]_vars

\* One caller puts a checkpoint, appends writes to it and gets it, while
\* entries of its ledger are damaged.
PendingNext ==
  \/ PutSteps("p1", {TRUE}, {"t1"} \X {"c1"}, ConcVariants)
  \/ WritesSteps("p1", {TRUE}, {"t1"}, {"c1"})
  \/ Get("p1", Config("t1", "", "c1"), 0)
  \/ \E i \in 1..2, field \in {"channel", "type", "value"}, drop \in BOOLEAN :
       DamageEntry("t1", "c1", i, field, drop)
PendingSpec == Init /\ [][PendingNext]_vars

\* One caller puts and appends writes on scopes whose thread id or
\* namespace may hold the separator.
Scopes == {<<"a", "b|c">>, <<"a|b", "c">>, <<"a", "">>}
ScopeNext ==
  \/ \E sc \in Scopes, cid \in {"c1", "c2"} :
       PutCall("p1", Config(sc[1], sc[2], None), Checkpoint(cid, "x1", 1),
               [source |-> "input"], 1, TRUE)
  \/ PutLatest("p1", TRUE)
  \/ PutTimelineRead("p1", TRUE)
  \/ PutTimelineWrite("p1", TRUE)
  \/ \E sc \in Scopes, w \in {<<(<<"a", "v1">>)>>, <<(<<"a", "v2">>)>>} :
       PutWritesCall("p1", Config(sc[1], sc[2], "c1"), w, "k1", "", 1, TRUE)
  \/ PutWritesWrite("p1", TRUE)
ScopeSpec == Init /\ [][ScopeNext]_vars

\* One caller calls every operation; any backend call may fail.
MaxCalls == 3   \* backend calls of a get or a list that may be the failing one
IOWrites == <<(<<"a", "v1">>)>>
IOVariants == {CHOOSE v \in ConcVariants : TRUE}
IONext ==
  \/ \E cid \in {"c1", "c2"}, v \in IOVariants, ok \in BOOLEAN :
       PutCall("p1", Config("t1", "", v.parent), Checkpoint(cid, v.x, 0), v.metadata, 1, ok)
  \/ \E ok \in BOOLEAN : PutLatest("p1", ok)
  \/ \E ok \in BOOLEAN : PutTimelineRead("p1", ok)
  \/ \E ok \in BOOLEAN : PutTimelineWrite("p1", ok)
  \/ \E ok \in BOOLEAN : PutWritesCall("p1", Config("t1", "", "c1"), IOWrites, "k1", "", 1, ok)
  \/ \E ok \in BOOLEAN : PutWritesWrite("p1", ok)
  \/ \E cid \in {"c1", None}, failAt \in 0..MaxCalls : Get("p1", Config("t1", "", cid), failAt)
  \/ \E failAt \in 0..MaxCalls :
       List("p1", Config("t1", "", None), EmptyDict, NoConfig, NoLimit, failAt)
IOSpec == Init /\ [][IONext]_vars

\* One caller puts and lists while the timeline record is malformed.
TimelineNext ==
  \/ PutSteps("p1", {TRUE}, {"t1"} \X {"c1", "c2"}, ConcVariants)
  \/ List("p1", Config("t1", "", None), EmptyDict, NoConfig, NoLimit, 0)
  \/ \E kind \in {"unparseable", "no list", "no items", "bad entries"} :
       DamageTimeline("t1", kind)
TimelineSpec == Init /\ [][TimelineNext]_vars

\* One caller puts checkpoints whose metadata differ in keys and values and
\* lists them with filters and limits, while records expire.
FilterVariants ==
  { [x |-> "x1", metadata |-> [source |-> "input"], parent |-> None],
    [x |-> "x1", metadata |-> [source |-> "loop", step |-> "1"], parent |-> None],
    [x |-> "x1", metadata |-> [step |-> "1"], parent |-> None] }
Filters == {EmptyDict, [source |-> "input"], [step |-> "1"], [source |-> None]}
Limits == {NoLimit, 0, 1, 2}
FilterNext ==
  \/ \E tc \in {"t1"} \X CheckpointIds, v \in FilterVariants :
       PutCall("p1", Config(tc[1], "", None), Checkpoint(tc[2], v.x, 1), v.metadata, 1, TRUE)
  \/ PutLatest("p1", TRUE)
  \/ PutTimelineRead("p1", TRUE)
  \/ PutTimelineWrite("p1", TRUE)
  \/ \E f \in Filters, n \in Limits :
       List("p1", Config("t1", "", None), f, NoConfig, n, 0)
  \/ \E cid \in CheckpointIds : Expire(key_cp("t1", "", cid))
FilterSpec == Init /\ [][FilterNext]_vars

\* The configs and payloads of callers that may have left out what is
\* required: a thread id (absent, empty, or given in the metadata only), the
\* id of the checkpoint (absent or empty).
AnyConfigs ==
  { Config("t1", "", "c1"),
    [configurable |-> EmptyDict, metadata |-> [thread_id |-> "t1"]],
    [configurable |-> [checkpoint_ns |-> "", checkpoint_id |-> "c1"], metadata |-> EmptyDict],
    Config("", "", "c1"),
    EmptyDict }
AnyCheckpoints ==
  { Checkpoint("c1", "x1", 1), Checkpoint("c2", "x1", 0),
    [x |-> "x1"], Checkpoint("", "x1", 1) }
AnyWrites == {<<>>, <<(<<"a", "v1">>)>>}

\* One caller calls every operation with such inputs, every backend call
\* succeeds.
ValidNext ==
  \/ \E config \in AnyConfigs, checkpoint \in AnyCheckpoints :
       PutCall("p1", config, checkpoint, [source |-> "input"], 2, TRUE)
  \/ PutLatest("p1", TRUE)
  \/ PutTimelineRead("p1", TRUE)
  \/ PutTimelineWrite("p1", TRUE)
  \/ \E config \in AnyConfigs, writes \in AnyWrites :
       PutWritesCall("p1", config, writes, "k1", "", 1, TRUE)
  \/ PutWritesWrite("p1", TRUE)
  \/ \E config \in AnyConfigs : Get("p1", config, 0)
  \/ \E config \in AnyConfigs : List("p1", config, EmptyDict, NoConfig, NoLimit, 0)
ValidSpec == Init /\ [][ValidNext]_vars

\* Callers interleave their puts on one scope, every backend call succeeds.
\* Two callers, each a task of its own, append writes to the ledger of one
\* checkpoint, which the first caller also puts; every backend call succeeds.
TaskOf == [p1 |-> "k1", p2 |-> "k2"]
WritersNext ==
  \/ \E v \in IOVariants :
       PutCall("p1", Config("t1", "", v.parent), Checkpoint("c1", v.x, 0), v.metadata, 1, TRUE)
  \/ PutLatest("p1", TRUE)
  \/ PutTimelineRead("p1", TRUE)
  \/ PutTimelineWrite("p1", TRUE)
  \/ \E p \in Procs, w \in WriteLists :
       PutWritesCall(p, Config("t1", "", "c1"), w, TaskOf[p], "", 1, TRUE)
  \/ \E p \in Procs : PutWritesWrite(p, TRUE)
WritersSpec == Init /\ [][WritersNext]_vars

\* Two callers put on two scopes; any backend call may fail, any put may
\* stop between two of its backend calls; no record expires.
IntegrityTargets ==
  [p1 |-> {"t1"} \X {"c1", "c2"}, p2 |-> {<<"t1", "c2">>, <<"t2", "c1">>}]
IntegrityNext ==
  \/ \E p \in Procs : \E tc \in IntegrityTargets[p], v \in IOVariants, ok \in BOOLEAN :
       PutCall(p, Config(tc[1], "", v.parent), Checkpoint(tc[2], v.x, 0), v.metadata, 1, ok)
  \/ \E p \in Procs, ok \in BOOLEAN : PutLatest(p, ok)
  \/ \E p \in Procs, ok \in BOOLEAN : PutTimelineRead(p, ok)
  \/ \E p \in Procs, ok \in BOOLEAN : PutTimelineWrite(p, ok)
  \/ \E p \in Procs : Crash(p)
IntegritySpec == Init /\ [][IntegrityNext]_vars

Next == \E p \in Procs : PutSteps(p, {TRUE}, {"t1"} \X {"c1", "c2"}, ConcVariants)
Spec == Init /\ [][Next]_vars

\* ------------------------------------------------------------ observers
\* A put on the scope of thread t is between two of its backend calls.
PutInProgress(t) ==
  \E p \in Procs : pc[p] # "idle" /\ frame[p].op = "put" /\ frame[p].thread_id = t

\* The timeline of a scope as the saver reads it, and its ids.
Timeline(t) == read_timeline_items(client_get(store, key_timeline(t, "")))
TimelineIds(t) == [i \in 1..Len(Timeline(t)) |-> Timeline(t)[i][2]]

\* The ids of the checkpoints a list yielded.
YieldedIds(got) ==
  [i \in 1..Len(got.value) |-> got.value[i].config.configurable.checkpoint_id]

\* ---------------------------------------------------------------- claims
\* C1: after sequential successful puts on a scope, get with no checkpoint
\* id returns the checkpoint of the put that returned last, whatever the
\* timestamps of the checkpoints are.
C1_LastPutIsLatest ==
  \A t \in Threads :
    (~PutInProgress(t) /\ lastPut[t] # Idle) =>
      LET got == get_tuple(store, Config(t, "", None), 0)
      IN /\ got.raised = None
         /\ got.value.found
         /\ got.value.checkpoint = lastPut[t].checkpoint
         /\ got.value.metadata = lastPut[t].metadata
         /\ got.value.config.configurable.checkpoint_id = lastPut[t].checkpoint_id

\* C1 witness: the put that returned last carries an older timestamp than
\* the checkpoint put before it, under another id, and get returns it.
C1_Witness ==
  /\ pc["p1"] = "idle"
  /\ Len(recency["t1"]) >= 2
  /\ lastPut["t1"].checkpoint_id = recency["t1"][1]
  /\ lastPut["t1"].ts < store[key_cp("t1", "", recency["t1"][2])].ts
  /\ get_tuple(store, Config("t1", "", None), 0).value.checkpoint = lastPut["t1"].checkpoint

\* What get(S, A) returns as checkpoint and metadata, or that it returns none.
GetPayload(st, t, cid) ==
  LET got == get_tuple(st, Config(t, "", cid), 0)
  IN IF got.raised = None /\ got.value.found
     THEN [found |-> TRUE, checkpoint |-> got.value.checkpoint,
           metadata |-> got.value.metadata]
     ELSE [found |-> FALSE]

\* Caller p issues the first backend call of a put in this step.
WritesCheckpoint(p) == pc[p] = "idle" /\ pc'[p] = "put_latest"

\* C2: the checkpoint record of (S, A) is written only by puts carrying id
\* A. In every step, also of interleaved puts: a put's first write makes
\* get(S, A) return that put's checkpoint and metadata for its own id A, and
\* what get(S, B) returns for any other id B changes in no step but the first
\* write of a put carrying B.
C2_RecordOwnedById ==
  [][\A t \in Threads, cid \in CheckpointIds :
       /\ \A p \in Procs :
            (WritesCheckpoint(p) /\ frame'[p].thread_id = t /\ frame'[p].checkpoint_id = cid)
              => GetPayload(store', t, cid) =
                   [found |-> TRUE, checkpoint |-> frame'[p].checkpoint,
                    metadata |-> frame'[p].metadata]
       /\ GetPayload(store', t, cid) # GetPayload(store, t, cid)
            => \E p \in Procs :
                 /\ WritesCheckpoint(p)
                 /\ frame'[p].thread_id = t
                 /\ frame'[p].checkpoint_id = cid]_vars

\* C2 witness: two puts with distinct ids are in flight together, one of
\* them overwriting a checkpoint stored before with another payload, and
\* get returns to each id the payload of its own put.
C2_Witness ==
  /\ pc["p1"] = "put_timeline_write"
  /\ pc["p2"] = "put_timeline_write"
  /\ frame["p1"].checkpoint_id # frame["p2"].checkpoint_id
  /\ ~frame["p1"].fresh
  /\ ~frame["p1"].same
  /\ GetPayload(store, "t1", frame["p1"].checkpoint_id).checkpoint = frame["p1"].checkpoint
  /\ GetPayload(store, "t1", frame["p2"].checkpoint_id).checkpoint = frame["p2"].checkpoint

\* C3: in every state reached by sequential puts the timeline of a scope
\* holds at most timeline_max entries, timeline_max being at least 1; once
\* more than timeline_max distinct ids have been put it holds exactly
\* timeline_max entries, the ids put most recently.
C3_TimelineCapped ==
  /\ timeline_max >= 1
  /\ \A t \in Threads :
       /\ Len(Timeline(t)) <= timeline_max
       /\ (~PutInProgress(t) /\ Len(recency[t]) > timeline_max) =>
            /\ Len(Timeline(t)) = timeline_max
            /\ TimelineIds(t) = Prefix(recency[t], timeline_max)

\* C3 witness: three distinct ids were put under a cap of two, and the
\* timeline holds the last two of them.
C3_Witness ==
  /\ pc["p1"] = "idle"
  /\ timeline_max = 2
  /\ Len(recency["t1"]) = 3
  /\ TimelineIds("t1") = <<recency["t1"][1], recency["t1"][2]>>

NoDuplicates(seq) == \A i, j \in 1..Len(seq) : seq[i] = seq[j] => i = j

\* C4: after sequential puts the timeline holds each id at most once, in the
\* order of each id's last put, newest first; a put moves its id to the head
\* of what it found and keeps the order of the rest; list with no before,
\* filter or limit yields the timeline's ids in that order.
C4_TimelineByRecency ==
  \A t \in Threads :
    ~PutInProgress(t) =>
      /\ NoDuplicates(TimelineIds(t))
      /\ TimelineIds(t) = Prefix(recency[t], Len(TimelineIds(t)))
      /\ lastPut[t] # Idle =>
           LET prior == [i \in 1..Len(lastPut[t].items) |-> lastPut[t].items[i][2]]
           IN TimelineIds(t) =
                Prefix(<<lastPut[t].checkpoint_id>>
                         \o SelectSeq(prior, LAMBDA c : c # lastPut[t].checkpoint_id),
                       timeline_max)
      /\ LET got == list(store, Config(t, "", None), EmptyDict, NoConfig, NoLimit, 0)
         IN got.raised = None /\ YieldedIds(got) = TimelineIds(t)

\* C4 witness: the last put found its id in the timeline behind another id,
\* and list now yields it first, once.
C4_Witness ==
  /\ pc["p1"] = "idle"
  /\ lastPut["t1"] # Idle
  /\ Len(lastPut["t1"].items) = 2
  /\ lastPut["t1"].items[2][2] = lastPut["t1"].checkpoint_id
  /\ YieldedIds(list(store, Config("t1", "", None), EmptyDict, NoConfig, NoLimit, 0))
       = <<lastPut["t1"].items[2][2], lastPut["t1"].items[1][2]>>

\* The ids at the positions of a sequence strictly after position i.
After(seq, i) == [k \in 1..(Len(seq) - i) |-> seq[i + k]]

\* C5: list(S, before=X) raises nothing, never yields X and yields the ids
\* that stand strictly after X's position in the timeline, in timeline
\* order; when X is not in the timeline it yields nothing.
C5_ListBefore ==
  \A p \in Procs :
    (ret[p].op = "list" /\ ret[p].before # NoConfig) =>
      LET t == ret[p].config.configurable.thread_id
          X == ret[p].before.configurable.checkpoint_id
          ids == TimelineIds(t)
      IN /\ ret[p].raised = None
         /\ \A i \in 1..Len(ret[p].value) : ret[p].value[i] # X
         /\ IF \E i \in 1..Len(ids) : ids[i] = X
            THEN \E i \in 1..Len(ids) : ids[i] = X /\ ret[p].value = After(ids, i)
            ELSE ret[p].value = <<>>

\* C5 witness: a list before the head of a timeline of three yielded the
\* other two ids, in order.
C5_Witness ==
  /\ ret["p1"].op = "list"
  /\ ret["p1"].before # NoConfig
  /\ Len(TimelineIds("t1")) = 3
  /\ ret["p1"].before.configurable.checkpoint_id = TimelineIds("t1")[1]
  /\ ret["p1"].value = <<TimelineIds("t1")[2], TimelineIds("t1")[3]>>

\* C5 witness of the other case: X is not in the timeline, nothing is yielded.
C5_WitnessAbsent ==
  /\ ret["p1"].op = "list"
  /\ ret["p1"].before # NoConfig
  /\ Len(TimelineIds("t1")) >= 2
  /\ \A i \in 1..Len(TimelineIds("t1")) :
       TimelineIds("t1")[i] # ret["p1"].before.configurable.checkpoint_id
  /\ ret["p1"].value = <<>>

\* The entries of the ledger of a checkpoint, none when it has no record.
Ledger(st, t, cid) ==
  LET rec == client_get(st, key_writes(t, "", cid))
  IN IF rec = Absent THEN <<>> ELSE rec.writes

\* The (task id, ordering index) of a ledger entry, and of the j-th write of
\* a call: the channel's value in the special-channel table if it has one,
\* else its position in the call.
Pair(entry) == <<entry.task_id, entry.idx>>
CallPair(task_id, writes, j) ==
  <<task_id,
    IF writes[j][1] \in DOMAIN WRITES_IDX_MAP THEN WRITES_IDX_MAP[writes[j][1]] ELSE j - 1>>
\* The last write of a call that falls on a pair.
LastOn(pair, task_id, writes) ==
  LET js == {j \in 1..Len(writes) : CallPair(task_id, writes, j) = pair}
  IN writes[CHOOSE j \in js : \A k \in js : k <= j]

Unresolvable(st, config) ==
  LET ids == ids_from_config(config)
      latest == client_get(st, key_latest(ids.thread_id, ids.checkpoint_ns))
      named == IF ids.checkpoint_id # None THEN ids.checkpoint_id
               ELSE IF latest = Absent \/ "checkpoint_id" \notin DOMAIN latest THEN None
               ELSE latest.checkpoint_id
      rec == client_get(st, key_cp(ids.thread_id, ids.checkpoint_ns, named))
  IN \/ named = None
     \/ rec = Absent
     \/ ~({"cp_type", "checkpoint", "meta_type", "metadata"} \subseteq DOMAIN rec)
     \/ rec.checkpoint = Garbage
     \/ rec.metadata = Garbage

\* Caller p's get returns or raises in this step.
GetEnds(p) == ret'[p] # ret[p] /\ ret'[p].op = "get"

\* C7: a get whose backend calls succeed returns "not found" and raises
\* nothing when the checkpoint cannot be resolved: nothing was ever put on
\* the scope, the latest pointer is absent, the checkpoint record named by
\* the pointer or by the config is absent, or its payload or metadata is
\* missing or does not decode.
C7_GetNotFound ==
  [][\A p \in Procs :
       (GetEnds(p) /\ Unresolvable(store, ret'[p].config)) =>
         (ret'[p].raised = None /\ ret'[p].value = NotFound)]_vars

\* C7 witness: a get naming c1 returned "not found" with the record of c1
\* stored and its payload undecodable.
C7_Witness ==
  /\ ret["p1"].op = "get"
  /\ ret["p1"].raised = None
  /\ ret["p1"].value = NotFound
  /\ ret["p1"].config = Config("t1", "", "c1")
  /\ key_cp("t1", "", "c1") \in DOMAIN store
  /\ "checkpoint" \in DOMAIN store[key_cp("t1", "", "c1")]
  /\ store[key_cp("t1", "", "c1")].checkpoint = Garbage

\* A get without id returned "not found" on a scope whose latest pointer
\* names a checkpoint whose record has expired.
C7_WitnessDangling ==
  /\ ret["p1"].op = "get"
  /\ ret["p1"].raised = None
  /\ ret["p1"].value = NotFound
  /\ ret["p1"].config = Config("t1", "", None)
  /\ key_latest("t1", "") \in DOMAIN store
  /\ "checkpoint_id" \in DOMAIN store[key_latest("t1", "")]
  /\ key_cp("t1", "", store[key_latest("t1", "")].checkpoint_id) \notin DOMAIN store

\* The steps of put after its checkpoint record is written: a put that ended
\* `at` one of them ended before that backend call took effect.
AfterStep1 == {"put_latest", "put_timeline_read", "put_timeline_write"}

\* Caller p's last call was a put of an id with no record yet, that wrote
\* the record and then ended on a failing backend call or a crash; no put
\* has started since.
PartialPut(p) ==
  /\ ret[p].op = "put"
  /\ ret[p].raised \in {"RuntimeError", "Crashed"}
  /\ ret[p].at \in AfterStep1
  /\ ret[p].call.fresh

\* get(S, A) returns the checkpoint and metadata of the put with frame f.
Stored(f) ==
  GetPayload(store, f.thread_id, f.checkpoint_id) =
    [found |-> TRUE, checkpoint |-> f.checkpoint, metadata |-> f.metadata]

\* get(S) without id returns the checkpoint with id cid.
ViaLatest(t, cid) ==
  LET got == get_tuple(store, Config(t, "", None), 0)
  IN /\ got.raised = None
     /\ got.value.found
     /\ got.value.config.configurable.checkpoint_id = cid

\* list(S), consumed to its end, yields the checkpoint with id cid.
ViaList(t, cid) ==
  LET ids == YieldedIds(list(store, Config(t, "", None), EmptyDict, NoConfig, NoLimit, 0))
  IN \E i \in 1..Len(ids) : ids[i] = cid

\* C8 as stated: after a put of a new id A that ended past step 1, A is
\* stored and neither get(S) nor list(S) gives A. Refuted: once the latest
\* pointer is written, get(S) returns A.
C8_AsStated ==
  \A p \in Procs :
    PartialPut(p) =>
      LET f == ret[p].call
      IN /\ Stored(f)
         /\ ~ViaLatest(f.thread_id, f.checkpoint_id)
         /\ ~ViaList(f.thread_id, f.checkpoint_id)

\* C8: after a put of a new id A wrote the checkpoint record and then ended
\* on a failing backend call or a crash, and until the next put, get(S, A)
\* returns the checkpoint and list(S) does not yield A; get(S) without id
\* does not return A when the put ended before the latest pointer was
\* written (step 2), and returns A when it ended after that, at the
\* timeline's read or write (step 3).
C8_PartialPut ==
  \A p \in Procs :
    PartialPut(p) =>
      LET f == ret[p].call
      IN /\ Stored(f)
         /\ ~ViaList(f.thread_id, f.checkpoint_id)
         /\ ViaLatest(f.thread_id, f.checkpoint_id) <=> (ret[p].at # "put_latest")

\* C8 witness: a put of a new id failed at the write of the timeline, which
\* lists an older checkpoint; get(S) already returns the new one.
C8_Witness ==
  /\ PartialPut("p1")
  /\ ret["p1"].raised = "RuntimeError"
  /\ ret["p1"].at = "put_timeline_write"
  /\ Len(Timeline("t1")) >= 1
  /\ ViaLatest("t1", ret["p1"].call.checkpoint_id)
  /\ ~ViaList("t1", ret["p1"].call.checkpoint_id)

\* Caller p's last call was a put that wrote the checkpoint record and then
\* had a backend call fail.
FailedAfterStep1(p) ==
  /\ ret[p].op = "put"
  /\ ret[p].at \in AfterStep1
  /\ ret[p].raised # "Crashed"

\* The reference a put with frame f returns.
Reference(f) == new_config(f.config, f.thread_id, f.checkpoint_ns, f.checkpoint_id)

PutStep(p) == frame[p].op = "put" \/ frame'[p].op = "put"
PutFrame(p) == IF frame[p].op = "put" THEN frame[p] ELSE frame'[p]
PutReturns(p) == pc[p] = "put_timeline_write" /\ pc'[p] = "idle" /\ ret'[p].raised = None

\* C10: put is idempotent per checkpoint id. No step of a put, failing or
\* not, changes what executing that put to its end would leave in the
\* backend, and a put that returns leaves exactly that: so a put re-executed
\* after it failed past step 1 or step 2 leaves what a single put that never
\* failed leaves. A put executed again right after it returned, with the
\* same parent, payload (timestamp included) and metadata, changes nothing
\* in the checkpoint record, the latest pointer or the timeline.
C10_PutIdempotent ==
  [][\A p \in Procs :
       PutStep(p) =>
         LET f == PutFrame(p)
         IN /\ put_all(store', f, timeline_max) = put_all(store, f, timeline_max)
            /\ PutReturns(p) => store' = put_all(store, f, timeline_max)
            /\ f.retry = "return" => store' = store]_vars

\* C10 witness: a put returned that re-executes the caller's previous put,
\* which had failed at the write of the timeline; the timeline now lists
\* its id before an older checkpoint.
C10_Witness ==
  /\ ret["p1"].op = "put"
  /\ ret["p1"].raised = None
  /\ ret["p1"].call.retry = "put_timeline_write"
  /\ ret["p1"].call.same
  /\ Len(Timeline("t1")) = 2
  /\ TimelineIds("t1")[1] = ret["p1"].call.checkpoint_id

\* A put returned that was executed twice in a row.
C10_WitnessTwice ==
  /\ ret["p1"].op = "put"
  /\ ret["p1"].raised = None
  /\ ret["p1"].call.retry = "return"
  /\ Len(Timeline("t1")) = 2
  /\ timeline_max > 2

\* A put returned that re-executes a put that failed at the latest pointer.
C10_WitnessAfterStep1 ==
  /\ ret["p1"].op = "put"
  /\ ret["p1"].raised = None
  /\ ret["p1"].call.retry = "put_latest"
  /\ Len(Timeline("t1")) = 2

\* A config names no thread: no non-empty thread_id under "configurable" nor
\* under "metadata". A payload names no checkpoint: no non-empty id.
MissingThread(config) ==
  /\ \A part \in {"configurable", "metadata"} :
       \/ part \notin DOMAIN config
       \/ "thread_id" \notin DOMAIN config[part]
       \/ config[part].thread_id \in {"", None}
LacksId(checkpoint) == "id" \notin DOMAIN checkpoint \/ checkpoint.id \in {"", None}

\* Caller p's call ends in this step with a ValueError and no record of the
\* backend has changed.
Rejected(p) ==
  /\ pc'[p] = "idle"
  /\ ret'[p].raised = "ValueError"
  /\ store' = store

\* C11: validation comes before any backend write. A put whose payload has
\* no non-empty id, and a put, a put_writes with writes, a get or a list
\* whose config names no thread, raise ValueError and leave every record of
\* the backend as it was.
C11_ValidationFirst ==
  [][\A p \in Procs :
       /\ \A config \in AnyConfigs, checkpoint \in AnyCheckpoints :
            (/\ MissingThread(config) \/ LacksId(checkpoint)
             /\ PutCall(p, config, checkpoint, [source |-> "input"], 2, TRUE))
            => Rejected(p)
       /\ \A config \in AnyConfigs, writes \in AnyWrites \ {<<>>} :
            (MissingThread(config) /\ PutWritesCall(p, config, writes, "k1", "", 1, TRUE))
            => Rejected(p)
       /\ \A config \in AnyConfigs :
            (MissingThread(config) /\ Get(p, config, 0)) => Rejected(p)
       /\ \A config \in AnyConfigs :
            (MissingThread(config) /\ List(p, config, EmptyDict, NoConfig, NoLimit, 0))
            => Rejected(p)]_vars

\* C11 witness: a put was rejected for its payload's id with checkpoints,
\* a timeline and a ledger stored.
C11_Witness ==
  /\ ret["p1"].op = "put"
  /\ ret["p1"].raised = "ValueError"
  /\ ret["p1"].at = "checkpoint_id"
  /\ key_cp("t1", "", "c1") \in DOMAIN store
  /\ key_timeline("t1", "") \in DOMAIN store
  /\ key_writes("t1", "", "c1") \in DOMAIN store

\* A get was rejected for its config's thread id with a checkpoint stored.
C11_WitnessGet ==
  /\ ret["p1"].op = "get"
  /\ ret["p1"].raised = "ValueError"
  /\ MissingThread(ret["p1"].config)
  /\ key_cp("t1", "", "c1") \in DOMAIN store

\* The checkpoint with id cid of thread t resolves through get, and its
\* metadata has every key of the filter with the filter's value.
Resolves(st, t, cid) ==
  LET got == get_tuple(st, Config(t, "", cid), 0)
  IN got.raised = None /\ got.value.found
HasAll(metadata, filter) ==
  \A k \in DOMAIN filter : k \in DOMAIN metadata /\ metadata[k] = filter[k]
Matches(st, t, cid, filter) ==
  /\ Resolves(st, t, cid)
  /\ HasAll(get_tuple(st, Config(t, "", cid), 0).value.metadata, filter)

\* The ids of the timeline entries of t that match, in the timeline's order.
Matching(st, t, filter) ==
  LET ids == TimelineIds(t)
  IN SelectSeq(ids, LAMBDA cid : Matches(st, t, cid, filter))

\* The ids of the entries of the timeline past the one list has yielded its
\* n-th checkpoint from (all of them when n is 0).
RECURSIVE PastNth(_, _, _, _, _)
PastNth(st, t, ids, filter, n) ==
  IF n = 0 \/ ids = <<>> THEN ids
  ELSE PastNth(st, t, Tail(ids), filter,
               IF Matches(st, t, Head(ids), filter) THEN n - 1 ELSE n)

\* list(S, filter, limit) on the backend as it stands does what C12 says,
\* for the filters of a set.
ListAsClaimed(filters) ==
  \A filter \in filters, limit \in Limits :
    LET got == list(store, Config("t1", "", None), filter, NoConfig, limit, 0)
        all == Matching(store, "t1", filter)
        past == IF limit = NoLimit THEN <<>>
                ELSE PastNth(store, "t1", TimelineIds("t1"), filter, limit)
    IN /\ got.raised = None
       /\ YieldedIds(got) = IF limit = NoLimit THEN all ELSE Prefix(all, limit)
       /\ \A i \in 1..Len(past) : \A j \in 1..Len(got.calls) :
            got.calls[j] # key_cp("t1", "", past[i])

\* C12 as stated: list yields, in timeline order, exactly the first `limit`
\* entries (all without limit) that resolve through get and whose metadata
\* has every key of the filter with the filter's value; it resolves no
\* checkpoint after the limit-th match. Violated by a filter that asks for
\* the value None: a checkpoint whose metadata lacks the key is yielded.
C12_AsStated == ListAsClaimed(Filters)

\* The same for filters that ask for no None value.
C12_ExceptNoneValues ==
  ListAsClaimed({f \in Filters : \A k \in DOMAIN f : f[k] # None})

\* A list with a filter and limit 1 yielded the second entry of a timeline
\* of three, the first not matching.
C12_WitnessSkips ==
  /\ ret["p1"].op = "list"
  /\ ret["p1"].filter = [source |-> "input"]
  /\ ret["p1"].limit = 1
  /\ Len(TimelineIds("t1")) = 3
  /\ ret["p1"].value = <<TimelineIds("t1")[2]>>

\* The ids of the timeline of a scope on a backend.
TimelineIdsOf(st, t) ==
  LET items == read_timeline_items(client_get(st, key_timeline(t, "")))
  IN {items[i][2] : i \in 1..Len(items)}

\* C13: the timeline's read-modify-write of concurrent puts on one scope is
\* not atomic. The put that writes the timeline overwrites it with what it
\* read: every id another put has added to the timeline since this put read
\* it is gone after the write, so two puts with distinct ids that both read
\* the old timeline leave, once both have returned, a timeline that lacks
\* the id of the one that wrote first.
C13_TimelineLastWriterWins ==
  [][\A p \in Procs :
       PutReturns(p) =>
         LET f == frame[p]
             read == {f.items[i][2] : i \in 1..Len(f.items)}
         IN /\ f.checkpoint_id \in TimelineIdsOf(store', f.thread_id)
            /\ \A cid \in TimelineIdsOf(store, f.thread_id) :
                 (cid \notin read /\ cid # f.checkpoint_id) =>
                   cid \notin TimelineIdsOf(store', f.thread_id)]_vars

\* C13 witness: two callers' puts with distinct ids have both returned, the
\* timeline has room for both ids and holds only one.
C13_Witness ==
  /\ \A p \in Procs : pc[p] = "idle" /\ ret[p].op = "put" /\ ret[p].raised = None
  /\ ret["p1"].call.checkpoint_id # ret["p2"].call.checkpoint_id
  /\ ret["p1"].call.thread_id = ret["p2"].call.thread_id
  /\ ops = 2
  /\ timeline_max >= 2
  /\ Cardinality(TimelineIdsOf(store, ret["p1"].call.thread_id)) = 1

\* A stored timeline text parses to a list; an element of it is an entry: a
\* list of two, the second a string id (the first, the timestamp, is taken
\* as it is).
ParsesToList(rec) ==
  /\ "items" \in DOMAIN rec
  /\ rec.items.text = "json"
  /\ rec.items.doc.ty = "list"
IsEntry(it) ==
  /\ it.ty = "list"
  /\ Len(it.v) = 2
  /\ it.v[2].ty = "str"

\* The (timestamp, id) entries the timeline record of t holds on st, in
\* order: none when the record is absent, has no items or does not parse.
KeptEntries(st, t) ==
  LET rec == client_get(st, key_timeline(t, ""))
  IN IF rec = Absent \/ ~ParsesToList(rec) THEN <<>>
     ELSE LET good == SelectSeq(rec.items.doc.v, IsEntry)
          IN [i \in 1..Len(good) |-> <<good[i].v[1].v, good[i].v[2].v>>]

\* The timeline record of t on st is well-formed: a list of entries only.
WellFormedTimeline(st, t) ==
  LET rec == client_get(st, key_timeline(t, ""))
  IN /\ rec # Absent
     /\ ParsesToList(rec)
     /\ \A i \in 1..Len(rec.items.doc.v) : IsEntry(rec.items.doc.v[i])

\* Reading and listing a scope whose timeline record may be malformed.
ReadsKept(st, t) ==
  LET got == list(st, Config(t, "", None), EmptyDict, NoConfig, NoLimit, 0)
      kept == KeptEntries(st, t)
      keptIds == [i \in 1..Len(kept) |-> kept[i][2]]
  IN /\ read_timeline_items(client_get(st, key_timeline(t, ""))) = kept
     /\ got.raised = None
     /\ YieldedIds(got) = SelectSeq(keptIds, LAMBDA cid : Resolves(st, t, cid))

C14_WitnessList ==
  /\ ret["p1"].op = "list"
  /\ ret["p1"].raised = None
  /\ Len(ret["p1"].value) = 1
  /\ ~WellFormedTimeline(store, "t1")
  /\ key_timeline("t1", "") \in DOMAIN store
  /\ ParsesToList(store[key_timeline("t1", "")])
  /\ Len(store[key_timeline("t1", "")].items.doc.v) = 4

\* A put returned on a scope whose timeline record did not parse.
C14_WitnessUnparseable ==
  /\ ret["p1"].op = "put"
  /\ ret["p1"].raised = None
  /\ ret["p1"].call.items = <<>>
  /\ Len(recency["t1"]) = 2
  /\ Len(KeptEntries(store, "t1")) = 1

\* The ledger record of (t, cid) is there and holds no writes collection.
MalformedLedger(st, t, cid) ==
  LET rec == client_get(st, key_writes(t, "", cid))
  IN rec # Absent /\ "writes" \notin DOMAIN rec

\* C15 as stated: put_writes takes a malformed ledger record for an empty
\* ledger and does not fail. Violated: on a record without writes bin the
\* call raises TypeError, and the record stays as it is.
C15_AsStated ==
  \A p \in Procs :
    (ret[p].op = "put_writes" /\ MalformedLedger(store, "t1", "c1")) =>
      ret[p].raised = None

\* A ledger entry can be decoded: it has the fields get needs and its bytes
\* carry a value.
Decodable(entry) ==
  /\ {"channel", "type", "value"} \subseteq DOMAIN entry
  /\ entry.value # Garbage

\* C16 as stated: get skips a ledger entry that cannot be decoded (a field
\* is missing, or its bytes do not decode) and returns the checkpoint, once
\* its record is stored, with every other entry as a pending write.
\* Violated: an entry whose bytes do not decode makes get raise.
C16_AsStated ==
  LET got == get_tuple(store, Config("t1", "", "c1"), 0)
      entries == SelectSeq(Ledger(store, "t1", "c1"), Decodable)
  IN key_cp("t1", "", "c1") \in DOMAIN store =>
       /\ got.raised = None
       /\ got.value.found
       /\ got.value.pending_writes =
            [i \in 1..Len(entries) |->
               <<entries[i].task_id, entries[i].channel,
                 loads_typed(<<entries[i].type, entries[i].value>>).value>>]

\* The same while no entry holds bytes that do not decode.
C16_ExceptDecodeFailure ==
  (\A i \in 1..Len(Ledger(store, "t1", "c1")) :
     "value" \in DOMAIN Ledger(store, "t1", "c1")[i] =>
       Ledger(store, "t1", "c1")[i].value # Garbage)
  => C16_AsStated

\* The records of a scope (thread id, namespace) on a backend: its
\* checkpoint records and ledgers by checkpoint id, its latest pointer and
\* its timeline.
RecordsOf(st, sc) ==
  [cp |-> [cid \in CheckpointIds |-> client_get(st, key_cp(sc[1], sc[2], cid))],
   writes |-> [cid \in CheckpointIds |-> client_get(st, key_writes(sc[1], sc[2], cid))],
   latest |-> client_get(st, key_latest(sc[1], sc[2])),
   timeline |-> client_get(st, key_timeline(sc[1], sc[2]))]

\* The scope of the call caller p takes a step of.
CallScope(p) ==
  LET f == IF frame[p].op # "none" THEN frame[p] ELSE frame'[p]
  IN <<f.thread_id, f.checkpoint_ns>>

\* C17 as stated: scopes are independent for all identifier strings, no two
\* scopes derive the same backend key (an identifier holding the separator
\* is rejected instead): a step of put or put_writes on a scope leaves the
\* checkpoint records, latest pointer, timeline and ledgers of every other
\* scope unchanged. Violated: thread "a" with namespace "b|c" and thread
\* "a|b" with namespace "c" are both accepted and share their keys.
C17_AsStated ==
  [][\A p \in Procs :
       (frame[p].op # "none" \/ frame'[p].op # "none") =>
         \A sc \in Scopes :
           sc # CallScope(p) => RecordsOf(store', sc) = RecordsOf(store, sc)]_vars

\* The same for scopes whose identifiers do not hold the separator.
C17_WithoutSeparator ==
  [][\A p \in Procs :
       (frame[p].op # "none" \/ frame'[p].op # "none") =>
         \A sc \in {<<"a", "">>, <<"t1", "">>, <<"t2", "">>} :
           sc # CallScope(p) => RecordsOf(store', sc) = RecordsOf(store, sc)]_vars

\* A read (what it gives when its failAt-th backend call fails, and what it
\* gives when none fails) surfaces the failure: when the failing call is
\* one the read issues, it raises the store error and its backend calls
\* are those up to the failing one, none after it and none twice.
Surfaces(got, clean, failAt) ==
  IF failAt <= Len(clean.calls)
  THEN /\ got.raised = "RuntimeError"
       /\ got.calls = Prefix(clean.calls, failAt)
  ELSE got = clean

ReadsSurface(st) ==
  \A failAt \in 1..MaxCalls :
    /\ \A cid \in {"c1", None} :
         Surfaces(get_tuple(st, Config("t1", "", cid), failAt),
                  get_tuple(st, Config("t1", "", cid), 0), failAt)
    /\ Surfaces(list(st, Config("t1", "", None), EmptyDict, NoConfig, NoLimit, failAt),
                list(st, Config("t1", "", None), EmptyDict, NoConfig, NoLimit, 0), failAt)

\* Caller p's call ends in this step with the store error, the backend as
\* it was: the call issues no further backend call.
Failed(p) ==
  /\ pc'[p] = "idle"
  /\ frame'[p] = Idle
  /\ ret'[p].raised = "RuntimeError"
  /\ store' = store

\* C18: a backend call that fails makes the operation fail with the store
\* error (RuntimeError, not the ValueError of validation), never a result
\* ("not found", an empty listing, a reference), and is the operation's
\* last backend call: nothing is retried, nothing is issued after it.
C18_FailureSurfaces ==
  /\ []ReadsSurface(store)
  /\ [][\A p \in Procs :
          /\ (ret'[p] # ret[p] /\ ret'[p].op \in {"get", "list"} /\ ret'[p].raised # None)
             => (ret'[p].raised = "RuntimeError" /\ pc'[p] = "idle" /\ store' = store)
          /\ \A cid \in {"c1", "c2"}, v \in IOVariants :
               PutCall(p, Config("t1", "", v.parent), Checkpoint(cid, v.x, 0), v.metadata, 1,
                       FALSE)
               => Failed(p)
          /\ PutLatest(p, FALSE) => Failed(p)
          /\ PutTimelineRead(p, FALSE) => Failed(p)
          /\ PutTimelineWrite(p, FALSE) => Failed(p)
          /\ PutWritesCall(p, Config("t1", "", "c1"), IOWrites, "k1", "", 1, FALSE) => Failed(p)
          /\ PutWritesWrite(p, FALSE) => Failed(p)]_vars

\* C18 witness: a get without id raised the store error at the lookup of
\* the checkpoint record its latest pointer names, which is stored.
C18_Witness ==
  /\ ret["p1"].op = "get"
  /\ ret["p1"].raised = "RuntimeError"
  /\ ret["p1"].config = Config("t1", "", None)
  /\ key_latest("t1", "") \in DOMAIN store
  /\ key_cp("t1", "", store[key_latest("t1", "")].checkpoint_id) \in DOMAIN store
  /\ key_writes("t1", "", "c1") \in DOMAIN store

\* A list raised the store error with two checkpoints in the timeline.
C18_WitnessList ==
  /\ ret["p1"].op = "list"
  /\ ret["p1"].raised = "RuntimeError"
  /\ Len(Timeline("t1")) = 2

\* A put_writes raised the store error at the write of the ledger.
C18_WitnessWrites ==
  /\ ret["p1"].op = "put_writes"
  /\ ret["p1"].raised = "RuntimeError"
  /\ ret["p1"].at = "put_writes_write"

\* The places in the order of the puts on thread t (last put first) of the
\* ids the timeline no longer holds: with sequential puts and no expiry,
\* the entries the truncation dropped.
Dropped(t) ==
  {j \in 1..Len(recency[t]) :
     \A i \in 1..Len(Timeline(t)) : Timeline(t)[i][2] # recency[t][j]}

\* The timestamp put stored with checkpoint cid of thread t, which is the
\* timestamp of its timeline entry.
PutTs(t, cid) == store[key_cp(t, "", cid)].ts

\* C19 as stated: after sequential puts no retained timeline entry has a
\* timestamp smaller than that of an entry the truncation dropped.
C19_AsStated ==
  \A t \in Threads :
    ~PutInProgress(t) =>
      \A i \in 1..Len(Timeline(t)), j \in Dropped(t) :
        Timeline(t)[i][1] >= PutTs(t, recency[t][j])

\* C19 as amended: the timeline is ordered by recency of put, and the
\* truncation drops from the tail: after sequential puts every retained
\* entry carries the timestamp its id was last put with, and its id was
\* last put after the id of every dropped entry; the timestamps of the
\* retained entries are no smaller than those of the dropped ones when no
\* put carried a timestamp smaller than that of a put before it.
C19_DroppedLeastRecent ==
  \A t \in Threads :
    ~PutInProgress(t) =>
      /\ \A i \in 1..Len(Timeline(t)) :
           /\ Timeline(t)[i][1] = PutTs(t, Timeline(t)[i][2])
           /\ \A j \in Dropped(t) :
                \E k \in 1..(j - 1) : recency[t][k] = Timeline(t)[i][2]
      /\ (\A k, j \in 1..Len(recency[t]) :
            k < j => PutTs(t, recency[t][k]) >= PutTs(t, recency[t][j]))
         => \A i \in 1..Len(Timeline(t)), j \in Dropped(t) :
              Timeline(t)[i][1] >= PutTs(t, recency[t][j])

\* C19 witness: the truncation dropped an entry whose timestamp is larger
\* than that of the entry the timeline retains.
C19_Witness ==
  /\ pc["p1"] = "idle"
  /\ Dropped("t1") # {}
  /\ Len(Timeline("t1")) >= 1
  /\ \E j \in Dropped("t1") : Timeline("t1")[1][1] < PutTs("t1", recency["t1"][j])

\* The checkpoint record of id cid exists in the scope of thread t.
HasRecord(st, t, cid) ==
  /\ key_cp(t, "", cid) \in DOMAIN st
  /\ st[key_cp(t, "", cid)].thread_id = t
  /\ st[key_cp(t, "", cid)].checkpoint_id = cid

\* C20: with no expiry, in every state (between the writes of a put, after
\* a put that failed or stopped part-way, under any interleaving of two
\* callers' puts) every id in a scope's timeline, and the id in its latest
\* pointer, has a checkpoint record in that scope.
C20_IndexesRefer ==
  \A t \in Threads :
    /\ \A i \in 1..Len(Timeline(t)) : HasRecord(store, t, Timeline(t)[i][2])
    /\ key_latest(t, "") \in DOMAIN store
         => HasRecord(store, t, store[key_latest(t, "")].checkpoint_id)

\* C20 witness: caller p2's put stopped after its pointer write, caller p1
\* is between its pointer write and its timeline read, and the timeline
\* holds neither id yet is not empty.
C20_Witness ==
  /\ ret["p2"].op = "put"
  /\ ret["p2"].raised = "Crashed"
  /\ ret["p2"].at = "put_timeline_read"
  /\ pc["p1"] = "put_timeline_read"
  /\ frame["p1"].thread_id = "t1"
  /\ store[key_latest("t1", "")].checkpoint_id = frame["p1"].checkpoint_id
  /\ frame["p1"].checkpoint_id \notin TimelineIdsOf(store, "t1")
  /\ TimelineIdsOf(store, "t1") # {}
  /\ key_latest("t2", "") \in DOMAIN store

\* A put failed at its pointer write: the record is stored, no index names it.
C20_WitnessFailed ==
  /\ ret["p1"].op = "put"
  /\ ret["p1"].raised = "RuntimeError"
  /\ ret["p1"].at = "put_latest"
  /\ key_cp("t1", "", "c1") \in DOMAIN store
  /\ key_latest("t1", "") \notin DOMAIN store

\* The latest pointer of thread t's scope names the head of its timeline,
\* id and timestamp, and get without id and the first item of list name
\* that checkpoint; a scope without a pointer has an empty timeline.
Agree(st, t) ==
  LET items == read_timeline_items(client_get(st, key_timeline(t, "")))
      latest == client_get(st, key_latest(t, ""))
      got == get_tuple(st, Config(t, "", None), 0)
      listed == list(st, Config(t, "", None), EmptyDict, NoConfig, NoLimit, 0)
  IN IF latest = Absent THEN items = <<>>
     ELSE /\ Len(items) >= 1
          /\ items[1] = <<latest.ts, latest.checkpoint_id>>
          /\ got.raised = None /\ got.value # NotFound
          /\ listed.raised = None /\ Len(listed.value) >= 1
          /\ got.value.config.configurable.checkpoint_id = latest.checkpoint_id
          /\ YieldedIds(listed)[1] = latest.checkpoint_id

\* C21 as stated: whenever no put is in progress on a scope (no put has
\* failed), its latest pointer names the head of its timeline, also after
\* interleaved puts of two callers that have all returned.
C21_AsStated ==
  \A t \in Threads : ~PutInProgress(t) => Agree(store, t)

\* Each caller's last put on the scope of thread t, if it has put, was
\* called while no other caller's put on the scope was in progress.
OneAfterAnother(t) ==
  \A p \in Procs :
    (ret[p].op = "put" /\ ret[p].call # Idle /\ ret[p].call.thread_id = t)
      => ret[p].call.alone

\* C21 as amended: whenever no put is in progress on a scope (no put has
\* failed), the head of its timeline holds the id and timestamp of the put
\* that returned last, and its latest pointer those of a put that has
\* returned; when the callers' last puts ran one after another, pointer and
\* head are equal, and get without id and the first item of list name the
\* same checkpoint.
C21_PointerIsHead ==
  \A t \in Threads :
    (~PutInProgress(t) /\ lastPut[t] # Idle) =>
      /\ Timeline(t)[1] = <<lastPut[t].ts, lastPut[t].checkpoint_id>>
      /\ \E p \in Procs :
           /\ ret[p].op = "put" /\ ret[p].raised = None
           /\ ret[p].call.thread_id = t
           /\ store[key_latest(t, "")].checkpoint_id = ret[p].call.checkpoint_id
           /\ store[key_latest(t, "")].ts = ret[p].call.ts
      /\ OneAfterAnother(t) => Agree(store, t)

\* C21 witness: the two callers have put one after the other, the second
\* put with a smaller timestamp than the first, and pointer and head name
\* the second put.
C21_Witness ==
  /\ pc["p1"] = "idle" /\ pc["p2"] = "idle"
  /\ ret["p1"].op = "put" /\ ret["p2"].op = "put"
  /\ OneAfterAnother("t1")
  /\ lastPut["t1"] = ret["p2"].call
  /\ Len(Timeline("t1")) = 2
  /\ Timeline("t1")[1][1] < Timeline("t1")[2][1]
  /\ store[key_latest("t1", "")].checkpoint_id = Timeline("t1")[1][2]

\* The two callers' puts overlapped and have returned; the pointer names
\* one put and the head of the timeline the other.
C21_WitnessApart ==
  /\ pc["p1"] = "idle" /\ pc["p2"] = "idle"
  /\ ret["p1"].op = "put" /\ ret["p2"].op = "put"
  /\ ~OneAfterAnother("t1")
  /\ store[key_latest("t1", "")].checkpoint_id # Timeline("t1")[1][2]

\* The ledger entries of the tasks other than task_id, in their order.
OtherEntries(items, task_id) == SelectSeq(items, LAMBDA e : e.task_id # task_id)

\* The pending writes get returns for a ledger's entries.
Triples(items) ==
  [i \in 1..Len(items) |->
     <<items[i].task_id, items[i].channel,
       loads_typed(<<items[i].type, items[i].value>>).value>>]

\* Both callers' last calls are put_writes that returned after writing the
\* ledger.
BothWrote ==
  \A p \in Procs :
    /\ pc[p] = "idle"
    /\ ret[p].op = "put_writes"
    /\ ret[p].raised = None
    /\ ret[p].call # Idle

\* C22 as stated: once the put_writes calls of two tasks on one checkpoint
\* have both completed, however their ledger reads and writes interleaved,
\* the ledger holds the entries of both calls and get on the checkpoint
\* returns pending writes of both tasks.
C22_AsStated ==
  BothWrote =>
    \A p \in Procs :
      /\ \A j \in 1..Len(ret[p].call.writes) :
           \E i \in 1..Len(Ledger(store, "t1", "c1")) :
             Pair(Ledger(store, "t1", "c1")[i])
               = CallPair(ret[p].call.task_id, ret[p].call.writes, j)
      /\ key_cp("t1", "", "c1") \in DOMAIN store =>
           LET got == get_tuple(store, Config("t1", "", "c1"), 0)
           IN \E i \in 1..Len(got.value.pending_writes) :
                got.value.pending_writes[i][1] = ret[p].call.task_id

\* C22 as amended: the ledger's read-modify-write is not atomic. What a
\* put_writes takes over of the other tasks' entries is what the ledger
\* held when it read it, and its write replaces the ledger with that and
\* its own entries: the entries another task wrote between this call's read
\* and its write are lost, and get on the checkpoint returns the pending
\* writes of the ledger as last written.
C22_LedgerLastWriterWins ==
  [][\A p \in Procs :
       /\ (pc[p] = "idle" /\ pc'[p] = "put_writes_write")
          => OtherEntries(frame'[p].existing_items, frame'[p].task_id)
               = OtherEntries(Ledger(store, "t1", "c1"), frame'[p].task_id)
       /\ (pc[p] = "put_writes_write" /\ pc'[p] = "idle")
          => /\ ret'[p].raised = None
             /\ Ledger(store', "t1", "c1") = frame[p].existing_items
             /\ \A j \in 1..Len(frame[p].writes) :
                  \E i \in 1..Len(Ledger(store', "t1", "c1")) :
                    Pair(Ledger(store', "t1", "c1")[i])
                      = CallPair(frame[p].task_id, frame[p].writes, j)
             /\ key_cp("t1", "", "c1") \in DOMAIN store' =>
                  LET got == get_tuple(store', Config("t1", "", "c1"), 0)
                  IN /\ got.raised = None
                     /\ got.value.pending_writes = Triples(frame[p].existing_items)]_vars

\* C22 witness: both tasks' calls read the empty ledger before either wrote
\* it; both have returned, the checkpoint is stored, and the ledger holds
\* the entries of the second task only.
C22_Witness ==
  /\ BothWrote
  /\ key_cp("t1", "", "c1") \in DOMAIN store
  /\ Ledger(store, "t1", "c1") # <<>>
  /\ \A i \in 1..Len(Ledger(store, "t1", "c1")) :
       Ledger(store, "t1", "c1")[i].task_id = "k2"
  /\ get_tuple(store, Config("t1", "", "c1"), 0).value.pending_writes
       = Triples(Ledger(store, "t1", "c1"))

\* Both tasks' calls have returned, one after the other: the ledger holds
\* the entries of both.
C22_WitnessBoth ==
  /\ BothWrote
  /\ \E i \in 1..Len(Ledger(store, "t1", "c1")) : Ledger(store, "t1", "c1")[i].task_id = "k1"
  /\ \E i \in 1..Len(Ledger(store, "t1", "c1")) : Ledger(store, "t1", "c1")[i].task_id = "k2"
====
